---- MODULE Spec2Model ----
(***************************************************************************)
(* Model of visualizar_tabela.py: a Streamlit script that loads a parquet  *)
(* table (from S3 or from an upload), shows it in an editable grid with a  *)
(* row-deletion confirmation, and saves it to S3 (with a backup copy) or   *)
(* to a local path.                                                        *)
(*                                                                         *)
(* Streamlit re-runs the whole script, top to bottom, on every widget      *)
(* interaction, and nothing else happens while it runs: a run is one       *)
(* action, the composition of the load block, main_editor, the save block  *)
(* and the footer.  Between runs the user acts on one widget that the last *)
(* run rendered.  A button returns True only in the run its click          *)
(* triggered.  Widget values persist between runs while the widget keeps   *)
(* being rendered; the value of a widget a run did not render is dropped.  *)
(***************************************************************************)
EXTENDS Integers, Sequences, FiniteSets, TLC

\* Number of rows of the stored and of the uploaded table.
MaxRows == 2

-----------------------------------------------------------------------------
(* Values *)

\* Python's None / a name that is not bound yet.
None == <<"None">>

\* A table is a sequence of rows; one column, so a row is its cell value.
StoredTable == [i \in 1..MaxRows |-> "r" \o ToString(i)]

\* The file the user uploads is a local copy of the stored table.
UploadTable == StoredTable

\* What the user types into a cell, and the blank row the grid appends.
TypedCell == "x"
BlankRow == "nan"

\* Parquet files carry the magic bytes PAR1; anything else does not decode.
NoBlob == [magic |-> "None", data |-> <<>>]
Garbage == [magic |-> "JUNK", data |-> <<>>]

to_parquet(df) == [magic |-> "PAR1", data |-> df]

CanDecode(blob) == blob.magic = "PAR1"

read_parquet(blob) == blob.data

\* The files the user can pick in the uploader.
UploadFiles == {to_parquet(UploadTable), Garbage}

\* The texts the user types into the confirmation input.
Codes == {"", "125", "999"}

\* Line 119: the path input's default; the user leaves it as it is.
DefaultSavePath == "Controle_de_Processos_edited.parquet"

\* The configured object keys: base name and extension.
Keys == {[base |-> "Controle_de_Processos", ext |-> ".parquet"],
         [base |-> "clientes", ext |-> ".parquet"]}

KeyName(k) == k.base \o k.ext

\* The days on which the session may be used, and the value of `today`
\* in a run that does not read the clock.
Calendar == {[year |-> 2025, month |-> 9, day |-> 30],
             [year |-> 2025, month |-> 10, day |-> 1]}

NoDate == [year |-> 0, month |-> 0, day |-> 0]

-----------------------------------------------------------------------------
(* State *)

VARIABLES
  secrets,    \* st.secrets: BUCKET_NAME, PARQUET_KEY
  today,      \* the date datetime.now() returned in the last run
  s3,         \* the bucket: object key -> blob
  disk,       \* the local file system: path -> blob
  cache,      \* st.cache_data of read_from_s3: <<bucket, key>> -> table
  widgets,    \* widget values Streamlit keeps between runs
  pc,         \* "start" before the first run of the session, then "idle"
  clicked,    \* the button whose click triggered the last run, "" if none
  df,         \* the last run's df
  edited_df,  \* the last run's edited_df
  backup_key, \* the last run's backup_key
  gate,       \* the confirmation gate of the last run
  deleted,    \* the deleted-row count the last run reported
  rendered,   \* widgets the last run rendered
  msgs,       \* messages the last run showed, in order
  calls,      \* storage and file-system calls the last run issued, in order
  uncaught,   \* the exception that ended the last run, if one escaped
  approved    \* history: some run of this session approved a deletion

vars == <<secrets, today, s3, disk, cache, widgets, pc, clicked, df, edited_df,
          backup_key, gate, deleted, rendered, msgs, calls, uncaught, approved>>

bucket == secrets.BUCKET_NAME
key == secrets.PARQUET_KEY

\* Names bound at module level when the save block runs.
ModuleNames == {"st", "pd", "os", "datetime", "boto3", "BytesIO", "s3", "bucket",
                "key", "read_from_s3", "write_to_s3", "mode", "df", "uploaded",
                "main_editor", "edited_df", "save_option", "backup_key",
                "save_path"}

NameDefined(n) == n \in ModuleNames

\* Exceptions: StopException is a BaseException that `except Exception`
\* does not catch; the others derive from Exception.
ExceptionClasses == {"NameError", "ClientError", "ArrowInvalid", "OSError"}

\* A clause that names the storage and file errors only.
CaughtIOErrorsOnly(e) == e.type \in {"ClientError", "OSError"}

\* A bare except, which catches every BaseException.
CaughtBaseException(e) == e.type \in ExceptionClasses \cup {"StopException"}

\* except Exception (lines 56, 116, 124).
Caught(e) == e.type \in ExceptionClasses

NoError == [type |-> "None", text |-> ""]

Raise(type, text) == [type |-> type, text |-> text]

Msg(kind, text) == [kind |-> kind, text |-> text]

Call(op, src, dst, body, ok) ==
  [op |-> op, src |-> src, dst |-> dst, body |-> body, ok |-> ok]

\* The external call that fails in a run, if any.  The first failure ends
\* the load block or the save block, so one run meets at most one; only
\* the calls the run can come to are listed.
Faults(w, button, memo, b, k) ==
  {"none"}
  \cup (IF w.mode = "Use S3 file" /\ <<b, k>> \notin DOMAIN memo
         THEN {"get_object", "truncated"} ELSE {})
  \cup (IF button = "Save to S3" THEN {"copy_object", "put_object"} ELSE {})
  \cup (IF button = "Save locally" THEN {"to_parquet"} ELSE {})

\* Rows the user appends in the grid within one session.
MaxAdded == 1

\* Widget values of a fresh session.
NoEdits == [edited_rows |-> {}, deleted_rows |-> {}, added_rows |-> 0]

DefaultWidgets ==
  [mode |-> "Use S3 file", uploaded |-> NoBlob, data_editor |-> NoEdits,
   confirm_code |-> "", save_option |-> "S3", save_path |-> DefaultSavePath,
   summary |-> FALSE]

\* Streamlit drops the value of a widget that the finished run did not render.
KeepRendered(w, r) ==
  [mode |-> w.mode,
   uploaded |-> IF "uploader" \in r THEN w.uploaded ELSE DefaultWidgets.uploaded,
   data_editor |-> IF "data_editor" \in r THEN w.data_editor
                   ELSE DefaultWidgets.data_editor,
   confirm_code |-> IF "confirm_code" \in r THEN w.confirm_code
                    ELSE DefaultWidgets.confirm_code,
   save_option |-> IF "save_option" \in r THEN w.save_option
                   ELSE DefaultWidgets.save_option,
   save_path |-> IF "save_path" \in r THEN w.save_path
                 ELSE DefaultWidgets.save_path,
   summary |-> IF "summary" \in r THEN w.summary ELSE DefaultWidgets.summary]

\* The locals and effects of a run that is about to begin.
Fresh(objects, files, memo, appr) ==
  [df |-> None, edited_df |-> None, backup_key |-> "", gate |-> "NONE",
   deleted |-> 0, rendered |-> {}, msgs |-> <<>>, calls |-> <<>>,
   s3 |-> objects, disk |-> files, cache |-> memo, approved |-> appr,
   stopped |-> FALSE, uncaught |-> NoError]

-----------------------------------------------------------------------------
(* Session start: the client is built and the secrets are read (lines      *)
(* 9-20); the first run of the script has not begun.                       *)

Init ==
  /\ \E k \in Keys :
       /\ secrets = [BUCKET_NAME |-> "controle-de-processos",
                     PARQUET_KEY |-> KeyName(k)]
       /\ s3 = (KeyName(k) :> to_parquet(StoredTable))
  /\ today = NoDate
  /\ disk = <<>>
  /\ cache = <<>>
  /\ widgets = DefaultWidgets
  /\ pc = "start"
  /\ clicked = ""
  /\ df = None
  /\ edited_df = None
  /\ backup_key = ""
  /\ gate = "NONE"
  /\ deleted = 0
  /\ rendered = {}
  /\ msgs = <<>>
  /\ calls = <<>>
  /\ uncaught = NoError
  /\ approved = FALSE

-----------------------------------------------------------------------------
(* Load (lines 39-58) *)

\* s3.get_object and response['Body'].read() (lines 26-27): the object
\* must exist and the request must get through; a download that breaks off
\* yields bytes that are no parquet file.
get_object(objects, k, fault) ==
  IF k \notin DOMAIN objects
    THEN [exc |-> Raise("ClientError", "NoSuchKey"), body |-> NoBlob]
  ELSE IF fault = "get_object"
    THEN [exc |-> Raise("ClientError", "EndpointConnectionError"), body |-> NoBlob]
  ELSE IF fault = "truncated"
    THEN [exc |-> NoError, body |-> Garbage]
  ELSE [exc |-> NoError, body |-> objects[k]]

\* pd.read_parquet of a blob, as a result or an exception.
decode(blob) ==
  IF CanDecode(blob)
    THEN [exc |-> NoError, df |-> read_parquet(blob)]
    ELSE [exc |-> Raise("ArrowInvalid", "Parquet magic bytes not found"),
          df |-> None]

\* The function without its @st.cache_data: every call reads the bucket.
read_from_s3_uncached(memo, objects, b, k, fault) ==
  LET got == get_object(objects, k, fault)
      call == Call("get_object", k, "", got.body, got.exc = NoError)
  IN IF got.exc # NoError
       THEN [exc |-> got.exc, df |-> None, cache |-> memo, calls |-> <<call>>]
     ELSE LET dec == decode(got.body)
          IN [exc |-> dec.exc, df |-> dec.df, cache |-> memo, calls |-> <<call>>]

\* read_from_s3 under st.cache_data (lines 23-27): a memoized result is
\* returned without a call; a result is memoized only when the function
\* returns.
read_from_s3(memo, objects, b, k, fault) ==
  IF <<b, k>> \in DOMAIN memo
    THEN [exc |-> NoError, df |-> memo[<<b, k>>], cache |-> memo, calls |-> <<>>]
  ELSE LET got == get_object(objects, k, fault)
           call == Call("get_object", k, "", got.body, got.exc = NoError)
       IN IF got.exc # NoError
            THEN [exc |-> got.exc, df |-> None, cache |-> memo, calls |-> <<call>>]
          ELSE LET dec == decode(got.body)
               IN [exc |-> dec.exc, df |-> dec.df,
                   cache |-> IF dec.exc = NoError
                               THEN (<<b, k>> :> dec.df) @@ memo ELSE memo,
                   calls |-> <<call>>]

\* The except clause without its st.stop().
LoadErrorFallsThrough == FALSE

\* Whether the load block's except clause ends the run (line 58: st.stop()).
LoadErrorStops == TRUE

\* Lines 56-58: an Exception raised in the try is reported and the run is
\* stopped; anything else propagates and ends the run as well.
LoadFailed(r, e) ==
  IF Caught(e)
    THEN [r EXCEPT !.msgs = Append(@, Msg("error", "Error loading data: " \o e.text)),
                   !.stopped = LoadErrorStops]
    ELSE [r EXCEPT !.stopped = TRUE]

\* Lines 44-58.
LoadBlock(r, w, b, k, fault) ==
  IF w.mode = "Use S3 file"
    THEN LET res == read_from_s3(r.cache, r.s3, b, k, fault)
             r1 == [r EXCEPT !.rendered = @ \cup {"mode"},
                             !.cache = res.cache,
                             !.calls = @ \o res.calls]
         IN IF res.exc = NoError
              THEN [r1 EXCEPT !.df = res.df,
                              !.msgs = Append(@, Msg("success",
                                 "Loaded from S3: s3://" \o b \o "/" \o k))]
              ELSE LoadFailed(r1, res.exc)
    ELSE LET r1 == [r EXCEPT !.rendered = @ \cup {"mode", "uploader"}]
         IN IF w.uploaded # NoBlob
              THEN LET dec == decode(w.uploaded)
                   IN IF dec.exc = NoError
                        THEN [r1 EXCEPT !.df = dec.df,
                                        !.msgs = Append(@, Msg("success",
                                                   "File uploaded and loaded"))]
                        ELSE LoadFailed(r1, dec.exc)
              ELSE LoadFailed([r1 EXCEPT !.msgs = Append(@, Msg("info",
                                           "Please upload a file or use S3 file"))],
                              Raise("StopException", ""))

-----------------------------------------------------------------------------
(* main_editor (lines 61-95) *)

RECURSIVE EditedRows(_, _, _)
EditedRows(t, e, i) ==
  IF i > Len(t) THEN <<>>
  ELSE (IF i \in e.deleted_rows THEN <<>>
        ELSE IF i \in e.edited_rows THEN <<TypedCell>>
        ELSE <<t[i]>>) \o EditedRows(t, e, i + 1)

\* st.data_editor(df, num_rows="dynamic", key="data_editor"): the table with
\* the grid's cell edits, row deletions and appended rows applied.
data_editor(t, e) ==
  EditedRows(t, e, 1) \o [i \in 1..e.added_rows |-> BlankRow]

\* The comparison with <= in place of <.
GateEnteredOnEqual(grid, t) == Len(grid) <= Len(t)

\* Line 82: the confirmation is asked for when rows are missing.
GateEntered(grid, t) == Len(grid) < Len(t)

\* A check that accepts any code that was typed.
code_nonempty(code) == code # ""

\* Line 85.
code_matches(code) == code = "125"

\* The count of the rows that remain.
RemainingCount(t, grid) == Len(grid)

\* Line 86: the count in the success message.
DeletedCount(t, grid) == Len(t) - Len(grid)

\* The revert left out: the grid's table is kept.
NotReverted(t, grid) == grid

\* Line 89: df.copy().
Reverted(t, grid) == t

\* The function with the approval remembered across runs.
main_editor_sticky(r, w, button) ==
  LET grid == data_editor(r.df, w.data_editor)
      inGate == GateEntered(grid, r.df)
      confirm == inGate /\ (button = "Confirm Deletion" \/ r.approved)
      match == r.approved \/ code_matches(w.confirm_code)
  IN [r EXCEPT
        !.rendered = @ \cup {"data_editor"} \cup
                     (IF inGate THEN {"confirm_code", "Confirm Deletion"} ELSE {}),
        !.gate = IF ~inGate THEN "NONE"
                 ELSE IF ~confirm THEN "AWAITING_CODE"
                 ELSE IF match THEN "APPROVED" ELSE "REVERTED",
        !.edited_df = IF confirm /\ ~match THEN Reverted(r.df, grid) ELSE grid,
        !.deleted = IF confirm /\ match THEN DeletedCount(r.df, grid) ELSE 0,
        !.msgs = IF ~confirm THEN @
                 ELSE IF match
                   THEN Append(@, Msg("success", "Deleted "
                          \o ToString(DeletedCount(r.df, grid)) \o " row(s)"))
                 ELSE Append(@, Msg("error",
                          "Incorrect code. No rows were deleted.")),
        !.approved = (@ \/ (confirm /\ match))]

\* Lines 62-91, on the run's df.
main_editor(r, w, button) ==
  LET grid == data_editor(r.df, w.data_editor)
      inGate == GateEntered(grid, r.df)
      confirm == inGate /\ button = "Confirm Deletion"
      match == code_matches(w.confirm_code)
  IN [r EXCEPT
        !.rendered = @ \cup {"data_editor"} \cup
                     (IF inGate THEN {"confirm_code", "Confirm Deletion"} ELSE {}),
        !.gate = IF ~inGate THEN "NONE"
                 ELSE IF ~confirm THEN "AWAITING_CODE"
                 ELSE IF match THEN "APPROVED" ELSE "REVERTED",
        !.edited_df = IF confirm /\ ~match THEN Reverted(r.df, grid) ELSE grid,
        !.deleted = IF confirm /\ match THEN DeletedCount(r.df, grid) ELSE 0,
        !.msgs = IF ~confirm THEN @
                 ELSE IF match
                   THEN Append(@, Msg("success", "Deleted "
                          \o ToString(DeletedCount(r.df, grid)) \o " row(s)"))
                 ELSE Append(@, Msg("error",
                          "Incorrect code. No rows were deleted.")),
        !.approved = (@ \/ (confirm /\ match))]

-----------------------------------------------------------------------------
(* Save Changes (lines 97-125) *)

RECURSIVE Zeros(_)
Zeros(n) == IF n <= 0 THEN "" ELSE "0" \o Zeros(n - 1)

Pad(n, width) == Zeros(width - Len(ToString(n))) \o ToString(n)

\* datetime.now().strftime('%Y%m%d')
strftime_Ymd(d) == Pad(d.year, 4) \o Pad(d.month, 2) \o Pad(d.day, 2)

\* Line 105.
BackupKey(d) ==
  "backups/Controle_de_Processos_" \o strftime_Ymd(d) \o ".parquet"

\* s3.copy_object within the bucket: the source must exist and the request
\* must get through.
copy_object(objects, src, dst, fault) ==
  IF src \notin DOMAIN objects
    THEN [exc |-> Raise("ClientError", "NoSuchKey"), s3 |-> objects]
  ELSE IF fault = "copy_object"
    THEN [exc |-> Raise("ClientError", "EndpointConnectionError"), s3 |-> objects]
  ELSE [exc |-> NoError, s3 |-> (dst :> objects[src]) @@ objects]

\* write_to_s3 (lines 30-36): encode, then s3.put_object.
write_to_s3(objects, t, k, fault) ==
  LET body == to_parquet(t)
  IN IF fault = "put_object"
       THEN [exc |-> Raise("ClientError", "EndpointConnectionError"),
             s3 |-> objects, calls |-> <<Call("put_object", "", k, body, FALSE)>>]
       ELSE [exc |-> NoError, s3 |-> (k :> body) @@ objects,
             calls |-> <<Call("put_object", "", k, body, TRUE)>>]

\* The names the copy_object statement (lines 106-110) evaluates, in order.
CopyObjectNames == <<"s3", "BUCKET_NAME", "bucket", "key", "backup_key">>

RECURSIVE FirstUnbound(_)
FirstUnbound(names) ==
  IF names = <<>> THEN ""
  ELSE IF ~NameDefined(Head(names)) THEN Head(names)
  ELSE FirstUnbound(Tail(names))

NameError(n) == Raise("NameError", "name '" \o n \o "' is not defined")

\* Lines 114-115.
S3SavedMsgs(b, k, bk) ==
  <<Msg("success", "Saved to S3: s3://" \o b \o "/" \o k),
    Msg("info", "Backup created at s3://" \o b \o "/" \o k)>>

\* The same statements with the write placed before the backup.
S3SaveWriteFirst(objects, b, k, t, d, fault) ==
  LET bk == BackupKey(d)
      wr == write_to_s3(objects, t, k, fault)
      unbound == FirstUnbound(CopyObjectNames)
  IN IF wr.exc # NoError
       THEN [exc |-> wr.exc, s3 |-> wr.s3, calls |-> wr.calls, backup_key |-> bk,
             msgs |-> <<>>]
     ELSE IF unbound # ""
       THEN [exc |-> NameError(unbound), s3 |-> wr.s3, calls |-> wr.calls,
             backup_key |-> bk, msgs |-> <<>>]
     ELSE LET cp == copy_object(wr.s3, k, bk, fault)
          IN [exc |-> cp.exc, s3 |-> cp.s3,
              calls |-> wr.calls \o
                        <<Call("copy_object", k, bk, NoBlob, cp.exc = NoError)>>,
              backup_key |-> bk,
              msgs |-> IF cp.exc = NoError THEN S3SavedMsgs(b, k, bk) ELSE <<>>]

\* The body of the try of the S3 branch (lines 104-115): the exception it
\* ends with (NoError when it runs to its end), the bucket afterwards, the
\* calls issued and the messages shown.
S3Save(objects, b, k, t, d, fault) ==
  LET bk == BackupKey(d)
      unbound == FirstUnbound(CopyObjectNames)
  IN IF unbound # ""
       THEN [exc |-> NameError(unbound), s3 |-> objects, calls |-> <<>>,
             backup_key |-> bk, msgs |-> <<>>]
     ELSE LET cp == copy_object(objects, k, bk, fault)
              cpCall == Call("copy_object", k, bk, NoBlob, cp.exc = NoError)
          IN IF cp.exc # NoError
               THEN [exc |-> cp.exc, s3 |-> cp.s3, calls |-> <<cpCall>>,
                     backup_key |-> bk, msgs |-> <<>>]
             ELSE LET wr == write_to_s3(cp.s3, t, k, fault)
                  IN [exc |-> wr.exc, s3 |-> wr.s3,
                      calls |-> <<cpCall>> \o wr.calls, backup_key |-> bk,
                      msgs |-> IF wr.exc = NoError
                                 THEN S3SavedMsgs(b, k, bk) ELSE <<>>]

\* DataFrame.to_parquet(path) (line 122): encode and write the file.
to_parquet_file(files, t, path, fault) ==
  LET body == to_parquet(t)
  IN IF fault = "to_parquet"
       THEN [exc |-> Raise("OSError", "Cannot open " \o path), disk |-> files,
             calls |-> <<Call("to_parquet", "", path, body, FALSE)>>]
       ELSE [exc |-> NoError, disk |-> (path :> body) @@ files,
             calls |-> <<Call("to_parquet", "", path, body, TRUE)>>]

\* The handling with read_from_s3.clear() after a save that went through.
SaveFailedClearsCache(r, prefix, e) ==
  IF e = NoError THEN [r EXCEPT !.cache = <<>>]
  ELSE IF Caught(e)
    THEN [r EXCEPT !.msgs = Append(@, Msg("error", prefix \o e.text))]
  ELSE [r EXCEPT !.stopped = TRUE, !.uncaught = e]

\* Lines 116-117 and 124-125: except Exception as e: st.error(...).  An
\* exception the clause does not catch ends the run.
SaveFailed(r, prefix, e) ==
  IF e = NoError THEN r
  ELSE IF Caught(e)
    THEN [r EXCEPT !.msgs = Append(@, Msg("error", prefix \o e.text))]
  ELSE [r EXCEPT !.stopped = TRUE, !.uncaught = e]

\* The block with a local save that also writes the primary object.
SaveBlockDualWrite(r, w, button, b, k, d, fault) ==
  IF w.save_option = "S3"
    THEN LET r1 == [r EXCEPT !.rendered = @ \cup {"save_option", "Save to S3"}]
         IN IF button = "Save to S3"
              THEN LET res == S3Save(r.s3, b, k, r.edited_df, d, fault)
                   IN SaveFailed([r1 EXCEPT !.s3 = res.s3,
                                            !.calls = @ \o res.calls,
                                            !.backup_key = res.backup_key,
                                            !.msgs = @ \o res.msgs],
                                 "Error saving to S3: ", res.exc)
              ELSE r1
    ELSE LET r1 == [r EXCEPT !.rendered =
                      @ \cup {"save_option", "save_path", "Save locally"}]
         IN IF button = "Save locally"
              THEN LET res == to_parquet_file(r.disk, r.edited_df, w.save_path, fault)
                       wr == write_to_s3(r.s3, r.edited_df, k, fault)
                   IN SaveFailed([r1 EXCEPT !.disk = res.disk,
                                            !.s3 = IF res.exc = NoError
                                                     THEN wr.s3 ELSE @,
                                            !.calls = @ \o res.calls \o
                                              (IF res.exc = NoError
                                                 THEN wr.calls ELSE <<>>),
                                            !.msgs = @ \o
                                              (IF res.exc = NoError
                                                 THEN <<Msg("success",
                                                   "Saved locally as " \o w.save_path)>>
                                                 ELSE <<>>)],
                                 "Error saving locally: ", res.exc)
              ELSE r1

\* Lines 98-125.
SaveBlock(r, w, button, b, k, d, fault) ==
  IF w.save_option = "S3"
    THEN LET r1 == [r EXCEPT !.rendered = @ \cup {"save_option", "Save to S3"}]
         IN IF button = "Save to S3"
              THEN LET res == S3Save(r.s3, b, k, r.edited_df, d, fault)
                   IN SaveFailed([r1 EXCEPT !.s3 = res.s3,
                                            !.calls = @ \o res.calls,
                                            !.backup_key = res.backup_key,
                                            !.msgs = @ \o res.msgs],
                                 "Error saving to S3: ", res.exc)
              ELSE r1
    ELSE LET r1 == [r EXCEPT !.rendered =
                      @ \cup {"save_option", "save_path", "Save locally"}]
         IN IF button = "Save locally"
              THEN LET res == to_parquet_file(r.disk, r.edited_df, w.save_path, fault)
                   IN SaveFailed([r1 EXCEPT !.disk = res.disk,
                                            !.calls = @ \o res.calls,
                                            !.msgs = @ \o
                                              (IF res.exc = NoError
                                                 THEN <<Msg("success",
                                                   "Saved locally as " \o w.save_path)>>
                                                 ELSE <<>>)],
                                 "Error saving locally: ", res.exc)
              ELSE r1

-----------------------------------------------------------------------------
(* Summary and footer (lines 127-138) *)

\* edited_df.describe(include='all'), reduced to its row count.
describe(t) == "count " \o ToString(Len(t))

\* The summary taken of df in place of edited_df.
FooterBlockOfLoaded(r, w) ==
  [r EXCEPT !.rendered = @ \cup {"summary"},
            !.msgs = @ \o (IF w.summary
                             THEN <<Msg("write", describe(r.df))>> ELSE <<>>)
                       \o <<Msg("markdown", "---"),
                            Msg("markdown", "Application Notes")>>]

\* Lines 128-138.
FooterBlock(r, w) ==
  [r EXCEPT !.rendered = @ \cup {"summary"},
            !.msgs = @ \o (IF w.summary
                             THEN <<Msg("write", describe(r.edited_df))>> ELSE <<>>)
                       \o <<Msg("markdown", "---"),
                            Msg("markdown", "Application Notes")>>]

-----------------------------------------------------------------------------
(* One run of the script *)

\* The dates datetime.now() can return in a run: only a run that enters
\* the S3 save block reads the clock (line 105).
Clock(button) == IF button = "Save to S3" THEN Calendar ELSE {NoDate}

\* Lines 39-138 in order; a stopped run executes nothing further.
Run(w, button) ==
  \E fault \in Faults(w, button, cache, bucket, key), now \in Clock(button) :
  \E r1 \in {LoadBlock(Fresh(s3, disk, cache, approved), w, bucket, key, fault)} :
  \E r2 \in {IF r1.stopped THEN r1 ELSE main_editor(r1, w, button)} :
  \E r3 \in {IF r2.stopped THEN r2
             ELSE SaveBlock(r2, w, button, bucket, key, now, fault)} :
  \E r \in {IF r3.stopped THEN r3 ELSE FooterBlock(r3, w)} :
       /\ pc' = "idle"
       /\ clicked' = button
       /\ widgets' = KeepRendered(w, r.rendered)
       /\ df' = r.df
       /\ edited_df' = r.edited_df
       /\ backup_key' = r.backup_key
       /\ gate' = r.gate
       /\ deleted' = r.deleted
       /\ rendered' = r.rendered
       /\ msgs' = r.msgs
       /\ calls' = r.calls
       /\ uncaught' = r.uncaught
       /\ s3' = r.s3
       /\ disk' = r.disk
       /\ cache' = r.cache
       /\ approved' = r.approved
       /\ today' = now
       /\ UNCHANGED secrets

\* The browser opens the page.
FirstRun ==
  /\ pc = "start"
  /\ Run(widgets, "")

-----------------------------------------------------------------------------
(* The user, between runs: one interaction with a widget the last run      *)
(* rendered starts the next run.                                           *)

Idle(widget) == pc = "idle" /\ widget \in rendered

ChooseMode ==
  /\ Idle("mode")
  /\ \E m \in {"Use S3 file", "Upload local file"} \ {widgets.mode} :
       Run([widgets EXCEPT !.mode = m], "")

UploadFile ==
  /\ Idle("uploader")
  /\ \E f \in UploadFiles \ {widgets.uploaded} :
       Run([widgets EXCEPT !.uploaded = f], "")

\* The user types into the cell of the first row.
EditCell ==
  /\ Idle("data_editor")
  /\ \E i \in {1} \ (widgets.data_editor.deleted_rows
                      \cup widgets.data_editor.edited_rows) :
       Run([widgets EXCEPT !.data_editor.edited_rows = @ \cup {i}], "")

\* The user deletes the last of the table's rows still in the grid.
DeleteRow ==
  /\ Idle("data_editor")
  /\ \E i \in (1..Len(df)) \ widgets.data_editor.deleted_rows :
       /\ \A j \in (1..Len(df)) \ widgets.data_editor.deleted_rows : j <= i
       /\ Run([widgets EXCEPT !.data_editor.deleted_rows = @ \cup {i},
                              !.data_editor.edited_rows = @ \ {i}], "")

AddRow ==
  /\ Idle("data_editor")
  /\ widgets.data_editor.added_rows < MaxAdded
  /\ Run([widgets EXCEPT !.data_editor.added_rows = @ + 1], "")

TypeCode ==
  /\ Idle("confirm_code")
  /\ \E c \in Codes \ {widgets.confirm_code} :
       Run([widgets EXCEPT !.confirm_code = c], "")

ClickConfirm ==
  /\ Idle("Confirm Deletion")
  /\ Run(widgets, "Confirm Deletion")

ChooseSave ==
  /\ Idle("save_option")
  /\ \E o \in {"S3", "Local"} \ {widgets.save_option} :
       Run([widgets EXCEPT !.save_option = o], "")

ClickSaveS3 ==
  /\ Idle("Save to S3")
  /\ Run(widgets, "Save to S3")

ClickSaveLocal ==
  /\ Idle("Save locally")
  /\ Run(widgets, "Save locally")

ToggleSummary ==
  /\ Idle("summary")
  /\ Run([widgets EXCEPT !.summary = ~@], "")

Next ==
  \/ FirstRun
  \/ ChooseMode
  \/ UploadFile
  \/ EditCell
  \/ DeleteRow
  \/ AddRow
  \/ TypeCode
  \/ ClickConfirm
  \/ ChooseSave
  \/ ClickSaveS3
  \/ ClickSaveLocal
  \/ ToggleSummary

Spec == Init /\ [][Next]_vars

TypeOK ==
  /\ pc \in {"start", "idle"}
  /\ gate \in {"NONE", "AWAITING_CODE", "APPROVED", "REVERTED"}
  /\ clicked \in {"", "Confirm Deletion", "Save to S3", "Save locally"}
  /\ today \in Calendar \cup {NoDate}

-----------------------------------------------------------------------------
(* Properties.  Every run is one action, so each state shows a finished    *)
(* run: its trigger (clicked), its locals, the widgets it rendered, its    *)
(* messages and its calls in the order they were issued.                   *)

Shown(kind, text) == \E j \in DOMAIN msgs : msgs[j] = Msg(kind, text)

ShownKind(kind) == \E j \in DOMAIN msgs : msgs[j].kind = kind

Issued(op) == \E j \in DOMAIN calls : calls[j].op = op

Succeeded(op) == \E j \in DOMAIN calls : calls[j].op = op /\ calls[j].ok

\* The table the grid returned in the last run.
Grid == data_editor(df, widgets.data_editor)

EditorRan == pc = "idle" /\ "data_editor" \in rendered

RowsMissing == EditorRan /\ Len(Grid) < Len(df)

ConfirmActivated == RowsMissing /\ clicked = "Confirm Deletion"

DeletionReported ==
  \E n \in 0..Len(df) :
    Shown("success", "Deleted " \o ToString(n) \o " row(s)")

SaveReported ==
  \/ Shown("success", "Saved to S3: s3://" \o bucket \o "/" \o key)
  \/ Shown("success", "Saved locally as " \o widgets.save_path)

\* Within one run: every write to the primary address comes after a copy of
\* the primary object to the day's backup address that succeeded.
BackupBeforeWrite ==
  \A j \in DOMAIN calls :
    calls[j].op = "put_object" =>
      \E i \in 1..(j - 1) :
        /\ calls[i].op = "copy_object"
        /\ calls[i].ok
        /\ calls[i].src = calls[j].dst
        /\ calls[i].dst = "backups/Controle_de_Processos_"
                          \o strftime_Ymd(today) \o ".parquet"

\* C1: in a remote save the copy of the primary object to the day's backup
\* address comes before any write to the primary address, and a run whose
\* copy did not succeed issues no write; over the session, the primary
\* object differs from the one the session started with only if the bucket
\* holds a backup object.
C1_NoOverwriteWithoutBackup ==
  /\ BackupBeforeWrite
  /\ s3[key] # to_parquet(StoredTable) =>
       \E d \in Calendar :
         ("backups/Controle_de_Processos_" \o strftime_Ymd(d) \o ".parquet")
           \in DOMAIN s3

\* A remote save whose copy step failed: reported, and nothing written.
C1_Witness ==
  /\ pc = "idle"
  /\ clicked = "Save to S3"
  /\ "Save to S3" \in rendered
  /\ ~Succeeded("copy_object")
  /\ ~Issued("put_object")
  /\ ShownKind("error")

\* C2: a table with fewer rows than the loaded one is persisted (to S3 or to
\* disk) only if a deletion was approved with the code in this session.
C2_OnlyApprovedDeletionsPersisted ==
  \A j \in DOMAIN calls :
    ( /\ calls[j].op \in {"put_object", "to_parquet"}
      /\ calls[j].ok
      /\ Len(read_parquet(calls[j].body)) < Len(df) ) => approved

\* C3: a remote save in which no storage call failed ends with the backup
\* object created, the primary object holding the encoded edit outcome, and
\* a success report and no error report.
C3_RemoteSaveSucceeds ==
  ( /\ pc = "idle"
    /\ clicked = "Save to S3"
    /\ "Save to S3" \in rendered
    /\ \A j \in DOMAIN calls : calls[j].ok )
  => ( /\ backup_key \in DOMAIN s3
       /\ s3[key] = to_parquet(edited_df)
       /\ SaveReported
       /\ ~ShownKind("error") )

\* C4 as stated: with rows missing and a code other than "125" in the
\* input, the edit outcome is the original table, whether or not Confirm
\* Deletion was activated.
C4_WrongCodeKeepsOriginal ==
  (RowsMissing /\ widgets.confirm_code # "125") => edited_df = df

\* C4 amended: with rows missing, Confirm Deletion activated and a code
\* other than "125", the edit outcome is the original table, cell edits
\* discarded.
C4_WrongCodeConfirmedKeepsOriginal ==
  (ConfirmActivated /\ widgets.confirm_code # "125") => edited_df = df

\* A wrong code confirmed with a cell edit in the grid next to the deletion.
C4_Witness ==
  /\ ConfirmActivated
  /\ widgets.confirm_code # "125"
  /\ widgets.data_editor.edited_rows # {}
  /\ Grid # df
  /\ edited_df = df

\* C5: Confirm Deletion with a wrong code reverts: an error is shown, the
\* edit outcome is the original table, and the run issues no save call.
C5_WrongCodeReverts ==
  (ConfirmActivated /\ widgets.confirm_code # "125") =>
    /\ gate = "REVERTED"
    /\ Shown("error", "Incorrect code. No rows were deleted.")
    /\ ~DeletionReported
    /\ edited_df = df
    /\ ~Issued("copy_object")
    /\ ~Issued("put_object")
    /\ ~Issued("to_parquet")

\* Scenario B: one row deleted, "999" entered, Confirm Deletion clicked.
C5_Witness ==
  /\ ConfirmActivated
  /\ widgets.confirm_code = "999"
  /\ Len(Grid) = Len(df) - 1
  /\ gate = "REVERTED"

\* C6: Confirm Deletion with the code "125" approves: the edit outcome is
\* the reduced table and the reported count is R minus the reduced count.
C6_RightCodeApproves ==
  (ConfirmActivated /\ widgets.confirm_code = "125") =>
    /\ gate = "APPROVED"
    /\ edited_df = Grid
    /\ deleted = Len(df) - Len(edited_df)
    /\ Shown("success", "Deleted " \o ToString(Len(df) - Len(Grid)) \o " row(s)")
    /\ ~ShownKind("error")

\* Every row deleted and approved: the count is R.
C6_Witness ==
  /\ ConfirmActivated
  /\ widgets.confirm_code = "125"
  /\ gate = "APPROVED"
  /\ edited_df = <<>>
  /\ deleted = MaxRows

\* C7: when the grid returns at least as many rows as the input table, no
\* gate is entered (no code input, no confirm button, no gate message) and
\* the grid's table is returned unchanged.
C7_NoGateWithoutMissingRows ==
  (EditorRan /\ Len(Grid) >= Len(df)) =>
    /\ gate = "NONE"
    /\ "confirm_code" \notin rendered
    /\ "Confirm Deletion" \notin rendered
    /\ ~Shown("error", "Incorrect code. No rows were deleted.")
    /\ deleted = 0
    /\ edited_df = Grid

\* A row deleted and a row appended: as many rows as before, no gate.
C7_Witness ==
  /\ EditorRan
  /\ widgets.data_editor.deleted_rows # {}
  /\ Len(Grid) = Len(df)
  /\ edited_df # df

\* The load of the last run failed: the read failed, or the blob read or
\* uploaded does not decode.
LoadFailure ==
  \/ \E j \in DOMAIN calls :
       /\ calls[j].op = "get_object"
       /\ (~calls[j].ok \/ ~CanDecode(calls[j].body))
  \/ /\ widgets.mode = "Upload local file"
     /\ widgets.uploaded # NoBlob
     /\ ~CanDecode(widgets.uploaded)

\* C8: the load produces a table, or it halts the run; a failed read or
\* decode is reported as an error and nothing after the load block runs.
C8_LoadOrHalt ==
  pc = "idle" =>
    /\ (df # None) <=> ("data_editor" \in rendered)
    /\ LoadFailure =>
         /\ df = None
         /\ ShownKind("error")
         /\ edited_df = None
         /\ rendered \subseteq {"mode", "uploader"}
         /\ ~Issued("copy_object")
         /\ ~Issued("put_object")
         /\ ~Issued("to_parquet")

\* A remote read that got through, with bytes that do not decode.
C8_Witness ==
  /\ pc = "idle"
  /\ \E j \in DOMAIN calls :
       calls[j].op = "get_object" /\ calls[j].ok /\ ~CanDecode(calls[j].body)
  /\ df = None

\* The save of the last run was attempted and did not go through.
SaveAttemptFailed ==
  \/ /\ clicked = "Save to S3"
     /\ "Save to S3" \in rendered
     /\ ~Succeeded("put_object")
  \/ /\ clicked = "Save locally"
     /\ "Save locally" \in rendered
     /\ ~Succeeded("to_parquet")

\* C9: a failed save raises nothing out of the run: it is shown as an error
\* message, and the summary toggle and the footer still run.
C9_SaveErrorsCaught ==
  (pc = "idle" /\ SaveAttemptFailed) =>
    /\ uncaught = NoError
    /\ ShownKind("error")
    /\ ~SaveReported
    /\ "summary" \in rendered
    /\ msgs[Len(msgs)] = Msg("markdown", "Application Notes")

\* A local save whose file write failed.
C9_Witness ==
  /\ pc = "idle"
  /\ clicked = "Save locally"
  /\ \E j \in DOMAIN calls : calls[j].op = "to_parquet" /\ ~calls[j].ok
  /\ "summary" \in rendered

\* C10: the backup address of a remote save is
\* backups/<base>_<YYYYMMDD><ext> with <base> and <ext> those of the
\* configured primary key.
C10_BackupKeyFromPrimaryKey ==
  \A k \in Keys :
    (pc = "idle" /\ clicked = "Save to S3" /\ "Save to S3" \in rendered
       /\ key = KeyName(k))
    => backup_key = "backups/" \o k.base \o "_" \o strftime_Ymd(today) \o k.ext

\* The report that lines 114-115 of the last run make once the copy and the
\* write have returned.
SaveReport == S3SavedMsgs(bucket, key, backup_key)

C15_NoUploadHaltsQuietly ==
  (pc = "idle" /\ widgets.mode = "Upload local file" /\ widgets.uploaded = NoBlob) =>
    /\ Shown("info", "Please upload a file or use S3 file")
    /\ ~ShownKind("error")
    /\ uncaught = NoError
    /\ df = None
    /\ edited_df = None
    /\ rendered = {"mode", "uploader"}
    /\ calls = <<>>

\* Upload mode chosen after a remote table was loaded, no file given yet.
C15_Witness ==
  /\ pc = "idle"
  /\ widgets.mode = "Upload local file"
  /\ widgets.uploaded = NoBlob
  /\ <<bucket, key>> \in DOMAIN cache
  /\ msgs = <<Msg("info", "Please upload a file or use S3 file")>>

\* The step is a run on the same load inputs and the same grid edits as the
\* run before it, with no decision taken at the gate.
NoFurtherEdit ==
  /\ pc' = "idle"
  /\ widgets'.mode = widgets.mode
  /\ widgets'.uploaded = widgets.uploaded
  /\ widgets'.data_editor = widgets.data_editor
  /\ clicked' # "Confirm Deletion"

SaveCalls == {"put_object", "to_parquet"}

\* C12: after a run whose save failed, a run with no further edit has the
\* same edit outcome, and a save retried in it is handed that table.
C12_FailedSaveKeepsOutcome ==
  [][ (pc = "idle" /\ SaveAttemptFailed /\ NoFurtherEdit) =>
        /\ edited_df' = edited_df
        /\ \A j \in DOMAIN calls' :
             calls'[j].op \in SaveCalls => calls'[j].body = to_parquet(edited_df)
    ]_vars

\* A remote save of an edited table that ended in the error message.
C12_Witness ==
  /\ pc = "idle"
  /\ clicked = "Save to S3"
  /\ "Save to S3" \in rendered
  /\ ~Succeeded("put_object")
  /\ edited_df # None
  /\ edited_df # df

\* C13: a run saves to at most one destination: at most one save call, a
\* remote save leaves the disk alone and writes no file, a local save leaves
\* the bucket alone and issues no copy and no put.
C13_SaveDestinationsExclusive ==
  [][ pc' = "idle" =>
        /\ Cardinality({j \in DOMAIN calls' : calls'[j].op \in SaveCalls}) <= 1
        /\ \A i, j \in DOMAIN calls' :
             ~(calls'[i].op = "to_parquet"
                 /\ calls'[j].op \in {"copy_object", "put_object"})
        /\ clicked' = "Save to S3" =>
             /\ disk' = disk
             /\ \A j \in DOMAIN calls' : calls'[j].op # "to_parquet"
        /\ clicked' = "Save locally" =>
             /\ s3' = s3
             /\ \A j \in DOMAIN calls' :
                  calls'[j].op \notin {"copy_object", "put_object"}
    ]_vars

\* A local save that wrote its file.
C13_Witness ==
  /\ pc = "idle"
  /\ clicked = "Save locally"
  /\ Succeeded("to_parquet")
  /\ widgets.save_path \in DOMAIN disk
  /\ disk[widgets.save_path] = to_parquet(edited_df)
  /\ ~Issued("copy_object")

\* C14: once (bucket, key) is memoized the entry stays as it is through every
\* step, no later run reads the bucket, and every later run in S3 mode loads
\* the memoized table; a read that returns a table memoizes it.
C14_MemoizedReadNeverInvalidated ==
  [][ /\ (<<bucket, key>> \in DOMAIN cache) =>
           /\ cache' = cache
           /\ \A j \in DOMAIN calls' : calls'[j].op # "get_object"
           /\ (pc' = "idle" /\ widgets'.mode = "Use S3 file") =>
                df' = cache[<<bucket, key>>]
      /\ (<<bucket, key>> \notin DOMAIN cache /\ df' # None
            /\ widgets'.mode = "Use S3 file") =>
           /\ <<bucket, key>> \in DOMAIN cache'
           /\ cache'[<<bucket, key>>] = df'
    ]_vars

\* A run in S3 mode that saved an edited table locally and loaded from the
\* memoized entry without a read.
C14_Witness ==
  /\ pc = "idle"
  /\ widgets.mode = "Use S3 file"
  /\ clicked = "Save locally"
  /\ Succeeded("to_parquet")
  /\ edited_df # df
  /\ <<bucket, key>> \in DOMAIN cache
  /\ df = cache[<<bucket, key>>]
  /\ ~Issued("get_object")

\* C16: a run in which the grid returns fewer rows and Confirm Deletion is
\* not clicked is in AWAITING_CODE and returns the grid's table with no gate
\* message, also when the run before it ended APPROVED or REVERTED.
C16_GateDecisionNotCarried ==
  [][ (gate \in {"APPROVED", "REVERTED"} /\ RowsMissing'
         /\ clicked' # "Confirm Deletion") =>
        /\ gate' = "AWAITING_CODE"
        /\ edited_df' = Grid'
        /\ deleted' = 0
        /\ ~DeletionReported'
        /\ ~Shown("error", "Incorrect code. No rows were deleted.")'
        /\ {"confirm_code", "Confirm Deletion"} \subseteq rendered'
    ]_vars

\* A run waiting for the code in a session that has approved a deletion.
C16_Witness ==
  /\ approved
  /\ RowsMissing
  /\ clicked # "Confirm Deletion"
  /\ gate = "AWAITING_CODE"

\* C17: in a run with rows missing and Confirm Deletion not clicked,
\* main_editor returns the reduced table, a save of that run is handed the
\* reduced table and the summary describes it.
C17_AwaitingPassUsesReducedTable ==
  (RowsMissing /\ clicked # "Confirm Deletion") =>
    /\ gate = "AWAITING_CODE"
    /\ edited_df = Grid
    /\ Len(edited_df) < Len(df)
    /\ \A j \in DOMAIN calls :
         calls[j].op \in SaveCalls => calls[j].body = to_parquet(Grid)
    /\ (widgets.summary /\ "summary" \in rendered) =>
         Shown("write", describe(Grid))

\* The reduced table written to disk and summarised with no code confirmed.
C17_Witness ==
  /\ RowsMissing
  /\ clicked = "Save locally"
  /\ Succeeded("to_parquet")
  /\ disk[widgets.save_path] = to_parquet(Grid)
  /\ widgets.summary
  /\ Shown("write", describe(Grid))

====
